---------------------------- MODULE Spec2Model ----------------------------
(***************************************************************************)
(* A model of hn, a HackerNews command line client (src/src/main.rs):      *)
(* the listing extractor, the item (comment) display, the word wrapper,    *)
(* the delimiter-encoded TTL cache and the multi-page fetch.               *)
(*                                                                         *)
(* A string is a sequence of characters, each character a one-character    *)
(* TLA+ string; the character U+2223 (DIVIDES), which the cache uses as    *)
(* the stand-in of the delimiter, is written "U+2223".                     *)
(* Option<T> is a record: None, or Some(v).                                *)
(***************************************************************************)
EXTENDS Integers, Sequences, FiniteSets, TLC

VARIABLES
    \* The build: TRUE when integer overflow checks are compiled in (a debug
    \* build panics on overflow), FALSE when they are not (a release build wraps)
    overflow_checks,
    \* Story codec (to_cache_line / from_cache_line)
    c_pc, c_story, c_line, c_back,
    \* The cache file (its content, or NoFile), the system clock in seconds
    \* since the epoch, and the result of the last load_cached_stories()
    cache, now, loaded,
    \* Listing extractor: the response to the request of fetch_stories, the
    \* page number it was called with, and what it returned
    x_response, x_page, x_result,
    \* Word wrapper: the arguments of wrap_text and what it returned
    w_text, w_width, w_lines,
    \* Item display: the response to the request of fetch_item, what it
    \* printed and how it ended
    i_response, i_printed, i_result,
    \* main: "idle" between commands, "multi" while join_all awaits the pages,
    \* "exited" when the command has ended and its process is still there;
    \* the command running or last run; the page fetches of multi and the
    \* order in which they completed; what the fetch of the command returned,
    \* what the command displayed and how it exited
    pc, cmd, tasks, order, returned, displayed, exit,
    \* history: the cache file when the command started, and the stories and
    \* save time of the last listing command that fetched and extracted
    cache_before, snapshot

codecVars == <<c_pc, c_story, c_line, c_back>>
cacheVars == <<cache, now, loaded>>
extractVars == <<x_response, x_page, x_result>>
wrapVars == <<w_text, w_width, w_lines>>
itemVars == <<i_response, i_printed, i_result>>
mainVars == <<pc, cmd, tasks, order, returned, displayed, exit, cache_before, snapshot>>
vars ==
    <<overflow_checks, codecVars, cacheVars, extractVars, wrapVars, itemVars, mainVars>>

-----------------------------------------------------------------------------
(* Program constants *)

ITEMS_PER_PAGE == 30
CACHE_TTL_SECONDS == 300
\* fetch_item: comments shown in full, and the width of the terminal line
COMMENTS_SHOWN == 10
LINE_WIDTH == 80

(* Bounds of the model *)
MaxTitleLen == 2
MaxCacheLines == 2
MaxRows == 5
MaxPage == 2
MaxWords == 3
MaxWidth == 10
MaxComments == 13
MaxNumPages == 3

-----------------------------------------------------------------------------
(* Option<T> *)

None == [some |-> FALSE]
Some(v) == [some |-> TRUE, val |-> v]
IsSome(o) == o.some
Option(S) == {None} \cup {Some(v) : v \in S}

(* Result<T>: Ok(v) or Err(message); a panic aborts the process *)

Ok(v) == [ok |-> TRUE, val |-> v, panic |-> FALSE]
Err(msg) == [ok |-> FALSE, err |-> msg, panic |-> FALSE]
Panic(msg) == [ok |-> FALSE, err |-> msg, panic |-> TRUE]

(* u64 / usize arithmetic.  A value v of Z / 2^64 is held as the integer r *)
(* of least magnitude with r = v (mod 2^64): 0 <= r stands for r, r < 0    *)
(* stands for 2^64 + r.  All magnitudes of the model are far below 2^31,   *)
(* so the representation is exact.                                         *)

\* the order of the represented values
U64Gt(a, b) ==
    IF (a < 0) = (b < 0) THEN a > b ELSE a < 0
\* a - b leaves 0 .. 2^64 - 1: "attempt to subtract with overflow"
SubOverflows(a, b) == U64Gt(b, a)
wrapping_sub(a, b) == a - b

(* Strings as sequences of characters *)

Delim == "|"
Placeholder == "U+2223"
Digits == <<"0", "1", "2", "3", "4", "5", "6", "7", "8", "9">>
IsDigit(c) == \E i \in 1..10 : Digits[i] = c
DigitValue(c) == (CHOOSE i \in 1..10 : Digits[i] = c) - 1

SeqsUpTo(S, lo, hi) == UNION {[1..n -> S] : n \in lo..hi}

\* the decimal digits (as numbers) of n >= 0, most significant first
RECURSIVE Decimal(_)
Decimal(n) ==
    IF n < 10 THEN <<n>> ELSE Decimal(n \div 10) \o <<n % 10>>

RECURSIVE DigitsValue(_)
DigitsValue(ds) ==
    IF ds = <<>> THEN 0
    ELSE DigitsValue(SubSeq(ds, 1, Len(ds) - 1)) * 10 + ds[Len(ds)]

\* 2^64 = 18446744073709551616
U64ModulusDigits ==
    <<1, 8, 4, 4, 6, 7, 4, 4, 0, 7, 3, 7, 0, 9, 5, 5, 1, 6, 1, 6>>

\* the digits of a - b for digit sequences of one length, a >= b
RECURSIVE DigitsMinus(_, _, _)
DigitsMinus(a, b, borrow) ==
    IF a = <<>> THEN <<>>
    ELSE LET d == a[Len(a)] - b[Len(b)] - borrow
         IN  DigitsMinus(SubSeq(a, 1, Len(a) - 1), SubSeq(b, 1, Len(b) - 1),
                         IF d < 0 THEN 1 ELSE 0)
                 \o <<IF d < 0 THEN d + 10 ELSE d>>
RECURSIVE StripZeros(_)
StripZeros(ds) ==
    IF Len(ds) > 1 /\ ds[1] = 0 THEN StripZeros(Tail(ds)) ELSE ds
PadTo(ds, n) == [i \in 1..(n - Len(ds)) |-> 0] \o ds
\* a < b for digit sequences of one length
RECURSIVE DigitsLess(_, _)
DigitsLess(a, b) ==
    /\ a # <<>>
    /\ \/ a[1] < b[1]
       \/ a[1] = b[1] /\ DigitsLess(Tail(a), Tail(b))

\* the decimal digits of the u64 value that r stands for
U64Digits(r) ==
    IF r >= 0 THEN Decimal(r)
    ELSE StripZeros(DigitsMinus(U64ModulusDigits, PadTo(Decimal(-r), 20), 0))

\* usize / u64 Display
to_string(r) == [i \in 1..Len(U64Digits(r)) |-> Digits[U64Digits(r)[i] + 1]]

\* str::parse::<usize>() / parse::<u64>(): an optional leading '+', then one
\* or more decimal digits and nothing else, of a value below 2^64.  The
\* values the model holds are below 10^9 or within 10^9 of 2^64.
ParseUnsigned(s) ==
    LET body == IF s # <<>> /\ s[1] = "+" THEN Tail(s) ELSE s
        ds == StripZeros([i \in 1..Len(body) |-> DigitValue(body[i])])
    IN  IF body = <<>> \/ \E i \in 1..Len(body) : ~IsDigit(body[i]) THEN None
        ELSE IF Len(ds) <= 9 THEN Some(DigitsValue(ds))
        ELSE IF Len(ds) > 20 \/ (Len(ds) = 20 /\ ~DigitsLess(ds, U64ModulusDigits))
        THEN None
        ELSE Some(0 - DigitsValue(StripZeros(
                 DigitsMinus(U64ModulusDigits, PadTo(ds, 20), 0))))

\* str::replace(from, to) for single characters
ReplaceChar(s, from, to) ==
    [i \in 1..Len(s) |-> IF s[i] = from THEN to ELSE s[i]]

\* str::split(sep).collect(): k occurrences of sep give k + 1 parts
RECURSIVE Split(_, _)
Split(s, sep) ==
    IF \A i \in 1..Len(s) : s[i] # sep THEN <<s>>
    ELSE LET k == CHOOSE i \in 1..Len(s) :
                      s[i] = sep /\ \A j \in 1..(i - 1) : s[j] # sep
         IN  <<SubSeq(s, 1, k - 1)>> \o Split(SubSeq(s, k + 1, Len(s)), sep)

\* [String]::join(sep)
RECURSIVE Join(_, _)
Join(parts, sep) ==
    IF parts = <<>> THEN <<>>
    ELSE IF Len(parts) = 1 THEN parts[1]
    ELSE parts[1] \o <<sep>> \o Join(Tail(parts), sep)

\* str::starts_with(prefix)
StartsWith(s, prefix) ==
    Len(s) >= Len(prefix) /\ SubSeq(s, 1, Len(prefix)) = prefix

\* str::contains(pat)
Contains(s, pat) ==
    \E i \in 1..(Len(s) - Len(pat) + 1) : SubSeq(s, i, i + Len(pat) - 1) = pat

\* str::trim_end_matches(c) and str::trim_start_matches(c)
RECURSIVE TrimEndMatches(_, _)
TrimEndMatches(s, c) ==
    IF s # <<>> /\ s[Len(s)] = c
    THEN TrimEndMatches(SubSeq(s, 1, Len(s) - 1), c) ELSE s
RECURSIVE TrimStartMatches(_, _)
TrimStartMatches(s, c) ==
    IF s # <<>> /\ s[1] = c THEN TrimStartMatches(Tail(s), c) ELSE s

\* str::replace(pat, "") for a pattern of several characters
RECURSIVE RemoveAll(_, _)
RemoveAll(s, pat) ==
    IF s = <<>> THEN <<>>
    ELSE IF StartsWith(s, pat) THEN RemoveAll(SubSeq(s, Len(pat) + 1, Len(s)), pat)
    ELSE <<s[1]>> \o RemoveAll(Tail(s), pat)

\* str::split_whitespace(): the maximal runs of non-whitespace characters
IsWhitespace(c) == c \in {" ", "\n", "\t", "\r"}
RECURSIVE SplitWhitespace(_)
SplitWhitespace(s) ==
    IF s = <<>> THEN <<>>
    ELSE IF IsWhitespace(s[1]) THEN SplitWhitespace(Tail(s))
    ELSE LET stops == {i \in 1..Len(s) : IsWhitespace(s[i])}
             n == IF stops = {} THEN Len(s)
                  ELSE (CHOOSE i \in stops : \A j \in stops : i <= j) - 1
         IN  <<SubSeq(s, 1, n)>> \o SplitWhitespace(SubSeq(s, n + 1, Len(s)))
\* split_whitespace().next()
FirstWord(s) ==
    IF SplitWhitespace(s) = <<>> THEN None ELSE Some(SplitWhitespace(s)[1])

-----------------------------------------------------------------------------
(* struct Story and its cache line *)

Story(rank, id, title, url, points, author, comments, age) ==
    [rank |-> rank, id |-> id, title |-> title, url |-> url, points |-> points,
     author |-> author, comments |-> comments, age |-> age]

OptStr(o) == IF IsSome(o) THEN o.val ELSE <<>>
OptNum(o) == IF IsSome(o) THEN to_string(o.val) ELSE <<>>
NonEmpty(s) == IF s = <<>> THEN None ELSE Some(s)

EscapeTitle(title) == ReplaceChar(title, Delim, Placeholder)
UnescapeTitle(field) == ReplaceChar(field, Placeholder, Delim)

to_cache_line(s) ==
    Join(<<to_string(s.rank), s.id, EscapeTitle(s.title), OptStr(s.url),
           OptNum(s.points), OptStr(s.author), OptNum(s.comments)>>, Delim)

FieldCountAtLeast(parts) == Len(parts) >= 7
FieldCountOk(parts) == Len(parts) = 7

from_cache_line(line) ==
    LET parts == Split(line, Delim)
    IN  IF ~FieldCountOk(parts) THEN None
        ELSE IF ~IsSome(ParseUnsigned(parts[1])) THEN None
        ELSE Some(Story(ParseUnsigned(parts[1]).val,
                        parts[2],
                        UnescapeTitle(parts[3]),
                        NonEmpty(parts[4]),
                        ParseUnsigned(parts[5]),
                        NonEmpty(parts[6]),
                        ParseUnsigned(parts[7]),
                        None))

-----------------------------------------------------------------------------
(* The stories the codec is applied to: what fetch_stories can emit.       *)
(* The title is never empty; a url, when present, is never empty.          *)

RankPool == {1, 10, 35}
IdPool == {<<"4", "2">>, <<"u", "n", "k", "n", "o", "w", "n">>}
TitlePool == SeqsUpTo({"a", Delim, Placeholder}, 1, MaxTitleLen)
UrlPool == {<<"h", "t", "t", "p", ":", "x">>,
            <<"h", "t", "t", "p", ":", "x", "?", "q", "=", "a", Delim, "b">>}
PointsPool == {0, 12}
AuthorPool == {<<"p", "g">>}
CommentsPool == {3}
AgePool == {<<"1", "h">>}

StoryPool ==
    {Story(r, i, t, u, p, a, c, g) :
        r \in RankPool, i \in IdPool, t \in TitlePool, u \in Option(UrlPool),
        p \in Option(PointsPool), a \in Option(AuthorPool),
        c \in Option(CommentsPool), g \in Option(AgePool)}

-----------------------------------------------------------------------------
(* The cache file: save_stories and load_cached_stories *)

NoFile == [exists |-> FALSE]
File(content) == [exists |-> TRUE, content |-> content]
NewLine == "\n"

\* the content save_stories writes at time ts
CacheContent(stories, ts) ==
    to_string(ts) \o <<NewLine>>
        \o Join([i \in 1..Len(stories) |-> to_cache_line(stories[i])], NewLine)

\* fs::write(&cache_path, cache_content): the whole file is replaced
WriteAppending(old, content) ==
    IF old.exists THEN File(old.content \o <<NewLine>> \o content) ELSE File(content)
Write(old, content) == File(content)

save_stories(old, stories, ts) == Write(old, CacheContent(stories, ts))

\* str::lines(): split at "\n", no final empty line, a trailing "\r" dropped
Lines(content) ==
    LET parts == Split(content, NewLine)
        kept == IF parts[Len(parts)] = <<>>
                THEN SubSeq(parts, 1, Len(parts) - 1) ELSE parts
        Chomp(l) == IF l # <<>> /\ l[Len(l)] = "\r"
                    THEN SubSeq(l, 1, Len(l) - 1) ELSE l
    IN  [i \in 1..Len(kept) |-> Chomp(kept[i])]

\* current_time - timestamp > CACHE_TTL_SECONDS, on u64
Expired(current_time, timestamp) ==
    U64Gt(wrapping_sub(current_time, timestamp), CACHE_TTL_SECONDS)

\* lines.filter_map(Story::from_cache_line).collect()
RECURSIVE FilterMapLines(_)
FilterMapLines(ls) ==
    IF ls = <<>> THEN <<>>
    ELSE LET s == from_cache_line(ls[1])
         IN  (IF IsSome(s) THEN <<s.val>> ELSE <<>>) \o FilterMapLines(Tail(ls))

load_cached_stories(file, current_time, checks) ==
    IF ~file.exists THEN Err("Failed to read cache file")
    ELSE
      LET lines == Lines(file.content)
          ts == IF lines = <<>> THEN None ELSE ParseUnsigned(lines[1])
          rest == IF lines = <<>> THEN <<>> ELSE Tail(lines)
          stories == FilterMapLines(rest)
      IN  IF IsSome(ts) /\ checks /\ SubOverflows(current_time, ts.val)
          THEN Panic("attempt to subtract with overflow")
          ELSE IF IsSome(ts) /\ Expired(current_time, ts.val)
          THEN Err("Cache expired")
          ELSE IF stories = <<>> THEN Err("No stories in cache")
          ELSE Ok(stories)

(* The cache files load_cached_stories is applied to *)

TimePoints == {1000, 1001, 1300, 1301, 1302}

Line(fields) == Join(fields, Delim)
LinePool ==
    {Line(<<<<"1">>, <<"4", "2">>, <<"a">>, <<"h", "t", "t", "p", ":", "x">>,
            <<"1", "2">>, <<"p", "g">>, <<"3">>>>),
     Line(<<<<"3", "5">>, <<"4", "3">>, <<Placeholder>>, <<>>, <<>>, <<>>, <<>>>>),
     Line(<<<<"+", "7">>, <<"4", "4">>, <<"a">>, <<>>, <<"x">>, <<>>, <<"-", "1">>>>),
     Line(<<<<"x">>, <<"4", "5">>, <<"a">>, <<>>, <<>>, <<>>, <<>>>>),
     Line(<<<<>>, <<"4", "6">>, <<"a">>, <<>>, <<>>, <<>>, <<>>>>),
     Line(<<<<"2">>, <<"4", "7">>, <<"a">>, <<>>, <<>>, <<>>>>),
     Line(<<<<"2">>, <<"4", "8">>, <<"a">>, <<"h", "t", "t", "p", ":", "x">>,
            <<"b">>, <<"1">>, <<"p", "g">>, <<"3">>>>),
     <<>>}
FirstLinePool ==
    {to_string(t) : t \in TimePoints} \cup {<<"x">>, <<>>}

FilePool ==
    {NoFile, File(<<>>)} \cup
    {File(Join(<<f>> \o ls, NewLine)) :
        f \in FirstLinePool, ls \in SeqsUpTo(LinePool, 0, MaxCacheLines)}

-----------------------------------------------------------------------------
(* HnScraper::fetch_stories: the listing extractor.                        *)
(* A document is what the selectors find in it: the story rows (tr.athing) *)
(* and the subtext rows (td.subtext), each in document order.              *)
(*   row:     id    - the id attribute, if any                             *)
(*            rank  - inner_html of the first span.rank, if any            *)
(*            title - the first span.titleline > a, if any: its inner_html *)
(*                    and its href attribute                               *)
(*   subtext: score   - inner_html of the first span.score, if any         *)
(*            anchors - the a elements: class ("hnuser", "age", "") and    *)
(*                      inner_html                                         *)

BASE_URL ==
    <<"h", "t", "t", "p", "s", ":", "/", "/", "n", "e", "w", "s", ".", "y", "c",
      "o", "m", "b", "i", "n", "a", "t", "o", "r", ".", "c", "o", "m">>

\* (page - 1) * ITEMS_PER_PAGE + idx + 1 on usize, idx counted from 0
FallbackOverflows(page, idx) == SubOverflows(page, 1)
FallbackRankFromZero(page, idx) == wrapping_sub(page, 1) * ITEMS_PER_PAGE + idx
FallbackRank(page, idx) == wrapping_sub(page, 1) * ITEMS_PER_PAGE + idx + 1

\* r.inner_html().trim_end_matches('.').parse().ok()
LabelRank(label) == ParseUnsigned(TrimEndMatches(label, "."))

RowRank(row, page, idx) ==
    IF IsSome(row.rank) /\ IsSome(LabelRank(row.rank.val))
    THEN LabelRank(row.rank.val).val
    ELSE FallbackRank(page, idx)

RowTitle(row) == IF IsSome(row.title) THEN row.title.val.text ELSE <<>>
TitleIsEmpty(title) == title = <<>>

ResolveUrl(href) ==
    IF StartsWith(href, <<"h", "t", "t", "p">>) THEN href
    ELSE BASE_URL \o <<"/">> \o TrimStartMatches(href, "/")
RowUrl(row) ==
    IF IsSome(row.title) /\ IsSome(row.title.val.href)
    THEN Some(ResolveUrl(row.title.val.href.val)) ELSE None

FirstOfClass(anchors, class) ==
    LET hits == {i \in 1..Len(anchors) : anchors[i].class = class}
    IN  IF hits = {} THEN None
        ELSE Some(anchors[CHOOSE i \in hits : \A j \in hits : i <= j].text)

SubPoints(sub) ==
    IF IsSome(sub.score) /\ IsSome(FirstWord(sub.score.val))
    THEN ParseUnsigned(FirstWord(sub.score.val).val) ELSE None

IsCommentLink(text) ==
    \/ Contains(text, <<"c", "o", "m", "m", "e", "n", "t">>)
    \/ Contains(text, <<"d", "i", "s", "c", "u", "s", "s">>)
SubComments(sub) ==
    LET hits == {i \in 1..Len(sub.anchors) : IsCommentLink(sub.anchors[i].text)}
        text == sub.anchors[CHOOSE i \in hits : \A j \in hits : i <= j].text
    IN  IF hits = {} \/ ~IsSome(FirstWord(text)) THEN None
        ELSE ParseUnsigned(RemoveAll(FirstWord(text).val, <<"&", "n", "b", "s", "p", ";">>))

\* the Story of story row idx (from 0), with subtext_rows.get(idx)
RowStory(doc, page, idx) ==
    LET row == doc.rows[idx + 1]
        has == idx + 1 <= Len(doc.subtexts)
        sub == doc.subtexts[idx + 1]
    IN  Story(RowRank(row, page, idx),
              IF IsSome(row.id) THEN row.id.val ELSE <<"u", "n", "k", "n", "o", "w", "n">>,
              RowTitle(row),
              RowUrl(row),
              IF has THEN SubPoints(sub) ELSE None,
              IF has THEN FirstOfClass(sub.anchors, "hnuser") ELSE None,
              IF has THEN SubComments(sub) ELSE None,
              IF has THEN FirstOfClass(sub.anchors, "age") ELSE None)

\* the loop over story_rows from row idx on: rows of empty title are skipped
RECURSIVE StoriesFrom(_, _, _)
StoriesFrom(doc, page, idx) ==
    IF idx >= Len(doc.rows) THEN <<>>
    ELSE (IF TitleIsEmpty(RowTitle(doc.rows[idx + 1])) THEN <<>>
          ELSE <<RowStory(doc, page, idx)>>) \o StoriesFrom(doc, page, idx + 1)

SendFailed == [kind |-> "send failed"]
ReadFailed == [kind |-> "read failed"]
Document(rows, subtexts) == [kind |-> "document", rows |-> rows, subtexts |-> subtexts]
NoStoriesFound == "No stories found on page. The page structure may have changed."

fetch_stories(response, page, checks) ==
    IF response = SendFailed THEN Err("Failed to send HTTP request")
    ELSE IF response = ReadFailed THEN Err("Failed to read response text")
    ELSE IF checks /\ \E idx \in 0..(Len(response.rows) - 1) : FallbackOverflows(page, idx)
    THEN Panic("attempt to subtract with overflow")
    ELSE IF StoriesFrom(response, page, 0) = <<>> THEN Err(NoStoriesFound)
    ELSE Ok(StoriesFrom(response, page, 0))

(* The documents the extractor is applied to *)

Row(id, rank, title) == [id |-> id, rank |-> rank, title |-> title]
TitleLink(text, href) == [text |-> text, href |-> href]
Anchor(class, text) == [class |-> class, text |-> text]
Subtext(score, anchors) == [score |-> score, anchors |-> anchors]

TitledLabelled ==
    Row(Some(<<"4", "2">>), Some(<<"7", ".">>),
        Some(TitleLink(<<"a">>, Some(<<"h", "t", "t", "p", ":", "x">>))))
TitledUnlabelled ==
    Row(Some(<<"4", "3">>), None,
        Some(TitleLink(<<"b", Delim>>, Some(<<"/", "i", "t", "e", "m">>))))
TitledBadLabel == Row(None, Some(<<"x">>), Some(TitleLink(<<"c">>, None)))
EmptyTitle == Row(Some(<<"4", "4">>), None, Some(TitleLink(<<>>, None)))
NoTitleLink == Row(Some(<<"4", "5">>), Some(<<"9", ".">>), None)
RowPool == {TitledLabelled, TitledUnlabelled, TitledBadLabel, EmptyTitle}
StorySubtext ==
    Subtext(Some(<<"1", "2", " ", "p", "o", "i", "n", "t", "s">>),
            <<Anchor("hnuser", <<"p", "g">>), Anchor("age", <<"1", "h">>),
              Anchor("", <<"h", "i", "d", "e">>),
              Anchor("", <<"3", "&", "n", "b", "s", "p", ";", "c", "o", "m", "m",
                           "e", "n", "t", "s">>)>>)
JobSubtext ==
    Subtext(None,
            <<Anchor("age", <<"2", "h">>),
              Anchor("", <<"5", " ", "c", "o", "m", "m", "e", "n", "t", "s">>)>>)
SubtextsPool ==
    {<<>>, <<StorySubtext, JobSubtext>>,
     <<JobSubtext, StorySubtext, StorySubtext, JobSubtext, StorySubtext, JobSubtext>>}
DocumentPool ==
    {Document(rows, subs) :
        rows \in SeqsUpTo(RowPool, 0, MaxRows) \cup {<<NoTitleLink>>, <<NoTitleLink, TitledLabelled>>},
        subs \in SubtextsPool}
ResponsePool == {SendFailed, ReadFailed} \cup DocumentPool
PagePool == 0..MaxPage

-----------------------------------------------------------------------------
(* wrap_text: greedy word wrap.  String::len() counts bytes; the characters *)
(* of the model are one byte each.  width is a usize.                      *)

\* current_line.len() + word.len() + 1 > width
OverfullAtWidth(current, word, width) == ~U64Gt(width, Len(current) + Len(word) + 1)
Overfull(current, word, width) == U64Gt(Len(current) + Len(word) + 1, width)

\* the loop over text.split_whitespace(), from the state (lines, current_line)
RECURSIVE WrapWords(_, _, _, _)
WrapWords(words, lines, current, width) ==
    IF words = <<>>
    THEN IF current # <<>> THEN Append(lines, current) ELSE lines
    ELSE LET word == Head(words)
             flush == Overfull(current, word, width) /\ current # <<>>
             lines1 == IF flush THEN Append(lines, current) ELSE lines
             current1 == IF flush THEN <<>> ELSE current
             current2 == IF current1 # <<>> THEN current1 \o <<" ">> \o word
                         ELSE word
         IN  WrapWords(Tail(words), lines1, current2, width)

wrap_text(text, width) == WrapWords(SplitWhitespace(text), <<>>, <<>>, width)

(* The texts wrap_text is applied to: words joined by single spaces; an     *)
(* empty "word" gives leading, trailing or doubled spaces.                  *)

Aaaa == <<"a", "a", "a", "a">>
Bbbb == <<"b", "b", "b", "b">>
Cccc == <<"c", "c", "c", "c">>
WordPool ==
    {Aaaa, Bbbb, Cccc, <<"d", "d">>,
     <<"e", "e", "e", "e", "e", "e", "e", "e", "e", "e">>, <<>>}
TextPool == {Join(ws, " ") : ws \in SeqsUpTo(WordPool, 0, MaxWords)}
WidthPool == 0..MaxWidth

-----------------------------------------------------------------------------
(* HnScraper::fetch_item: the item display.                                 *)
(* An item document is what the selectors find in it:                       *)
(*   title    - the first span.titleline, if any, and its first a, if any:  *)
(*              inner_html and href                                         *)
(*   toptext  - the text of the first div.toptext, if any                   *)
(*   comments - the rows tr.athing.comtr in document order, each with       *)
(*              indent  - the indent attribute of the first td.ind, if any  *)
(*              comhead - the first span.comhead, if any: the inner_html of *)
(*                        its a.hnuser and of its span.age a, if any        *)
(*              text    - the text of the first div.commtext, if any        *)
(* What fetch_item prints is a sequence of records, one per println!.       *)

\* str::trim()
RECURSIVE TrimStart(_)
TrimStart(s) == IF s # <<>> /\ IsWhitespace(s[1]) THEN TrimStart(Tail(s)) ELSE s
RECURSIVE TrimEnd(_)
TrimEnd(s) ==
    IF s # <<>> /\ IsWhitespace(s[Len(s)])
    THEN TrimEnd(SubSeq(s, 1, Len(s) - 1)) ELSE s
Trim(s) == TrimEnd(TrimStart(s))

\* text.trim().lines().map(trim).filter(not empty).join(" ")
CleanText(text) ==
    LET ls == Lines(Trim(text))
        trimmed == [i \in 1..Len(ls) |-> Trim(ls[i])]
        IsNotEmpty(l) == l # <<>>
    IN  Join(SelectSeq(trimmed, IsNotEmpty), " ")


\* the title block: title and link, title alone, or nothing
TitlePrinted(doc) ==
    IF IsSome(doc.title) /\ IsSome(doc.title.val.link)
    THEN LET link == doc.title.val.link.val
         IN  <<[kind |-> "title", text |-> link.text,
                url |-> IF IsSome(link.href) THEN Some(ResolveUrl(link.href.val))
                        ELSE None]>>
    ELSE <<>>

\* the story text, when it is not blank
TextPrinted(doc) ==
    IF IsSome(doc.toptext) /\ Trim(doc.toptext.val) # <<>>
    THEN <<[kind |-> "text", text |-> Trim(doc.toptext.val)]>>
    ELSE <<>>

IndentLevel(row) ==
    IF IsSome(row.indent) /\ IsSome(ParseUnsigned(row.indent.val))
    THEN ParseUnsigned(row.indent.val).val ELSE 0

\* 80 - (indent_level * 2 + 2) on usize
WidthOverflows(indent_level) == SubOverflows(LINE_WIDTH, indent_level * 2 + 2)
WrapWidth(indent_level) == wrapping_sub(LINE_WIDTH, indent_level * 2 + 2)

HeadPrinted(row) ==
    IF IsSome(row.comhead)
    THEN <<[kind |-> "head", indent |-> IndentLevel(row),
            author |-> IF IsSome(row.comhead.val.author)
                       THEN row.comhead.val.author.val
                       ELSE <<"[", "d", "e", "l", "e", "t", "e", "d", "]">>,
            age |-> OptStr(row.comhead.val.age)]>>
    ELSE <<>>

BodyPrinted(row) ==
    IF IsSome(row.text)
    THEN LET wrapped == wrap_text(CleanText(row.text.val), WrapWidth(IndentLevel(row)))
         IN  [i \in 1..Len(wrapped) |->
                 [kind |-> "line", indent |-> IndentLevel(row), text |-> wrapped[i]]]
    ELSE <<>>

\* the width is computed only for a row that has a div.commtext
RowPanics(row, checks) ==
    checks /\ IsSome(row.text) /\ WidthOverflows(IndentLevel(row))

MoreComments(comment_count) ==
    [kind |-> "more", count |-> comment_count - COMMENTS_SHOWN]
PastCap(idx) == idx >= COMMENTS_SHOWN

\* the loop over the comment rows from row idx (from 0) on: what it prints,
\* and whether it panics
RECURSIVE CommentsFrom(_, _, _)
CommentsFrom(rows, idx, checks) ==
    IF idx >= Len(rows) THEN [printed |-> <<>>, panicked |-> FALSE]
    ELSE IF PastCap(idx)
    THEN [printed |-> <<MoreComments(Len(rows))>>, panicked |-> FALSE]
    ELSE LET row == rows[idx + 1]
         IN  IF RowPanics(row, checks)
             THEN [printed |-> HeadPrinted(row), panicked |-> TRUE]
             ELSE LET rest == CommentsFrom(rows, idx + 1, checks)
                  IN  [printed |-> HeadPrinted(row) \o BodyPrinted(row)
                                     \o <<[kind |-> "end"]>> \o rest.printed,
                       panicked |-> rest.panicked]

ItemDocument(title, toptext, comments) ==
    [kind |-> "document", title |-> title, toptext |-> toptext, comments |-> comments]

\* what fetch_item prints and how it ends
fetch_item(response, checks) ==
    IF response = SendFailed
    THEN [printed |-> <<>>, result |-> Err("Failed to fetch item")]
    ELSE IF response = ReadFailed
    THEN [printed |-> <<>>, result |-> Err("Failed to read item response")]
    ELSE
      LET top == TitlePrinted(response) \o TextPrinted(response)
          comment_count == Len(response.comments)
          shown == CommentsFrom(response.comments, 0, checks)
      IN  IF comment_count = 0
          THEN [printed |-> top \o <<[kind |-> "no comments"]>>, result |-> Ok(<<>>)]
          ELSE [printed |-> top \o <<[kind |-> "count", total |-> comment_count]>>
                                \o shown.printed,
                result |-> IF shown.panicked
                           THEN Panic("attempt to subtract with overflow")
                           ELSE Ok(<<>>)]

(* The item documents fetch_item is applied to: n comment rows, the i-th    *)
(* with the text "c<i>", one of them possibly of another kind.              *)

CommentRow(indent, comhead, text) ==
    [indent |-> indent, comhead |-> comhead, text |-> text]
ComHead(author, age) == [author |-> author, age |-> age]
PlainComment(i) ==
    CommentRow(Some(<<"1">>), Some(ComHead(Some(<<"p", "g">>), Some(<<"1", "h">>))),
               Some(<<"c">> \o to_string(i) \o <<" ", "\n", " ">> \o Aaaa))
SpecialComment(kind, i) ==
    CASE kind = "deleted" -> CommentRow(None, Some(ComHead(None, None)), None)
      [] kind = "bare"    -> CommentRow(Some(<<"x">>), None, Some(<<"c">> \o to_string(i)))
      [] kind = "deep"    ->
            CommentRow(Some(<<"4", "0">>), Some(ComHead(Some(<<"p", "g">>), None)),
                       Some(<<"c">> \o to_string(i)))
CommentRows(n, at, kind) ==
    [i \in 1..n |-> IF i = at THEN SpecialComment(kind, i) ELSE PlainComment(i)]
ItemTitlePool ==
    {None, Some([link |-> None]),
     Some([link |-> Some(TitleLink(<<"a">>, Some(<<"i", "t", "e", "m">>)))]),
     Some([link |-> Some(TitleLink(<<"a">>, None))])}
TopTextPool == {None, Some(<<" ">>), Some(<<" ", "t", " ">>)}
ItemDocumentPool ==
    {ItemDocument(t, x, CommentRows(n, at, kind)) :
        t \in ItemTitlePool, x \in TopTextPool,
        n \in 0..MaxComments, at \in 0..MaxComments, kind \in {"deleted", "bare", "deep"}}
ItemResponsePool == {SendFailed, ReadFailed} \cup ItemDocumentPool

-----------------------------------------------------------------------------
(* main: the listing commands and multi.                                    *)

ListingCommands == {"top", "new", "best", "ask", "show", "job"}
Endpoint(name) ==
    CASE name = "top" -> "news"
      [] name = "new" -> "newest"
      [] name = "best" -> "best"
      [] name = "ask" -> "ask"
      [] name = "show" -> "show"
      [] name = "job" -> "jobs"
      [] OTHER -> "news"
FetchContext(name) ==
    CASE name = "top" -> "Failed to fetch top stories"
      [] name = "new" -> "Failed to fetch new stories"
      [] name = "best" -> "Failed to fetch best stories"
      [] name = "ask" -> "Failed to fetch Ask HN stories"
      [] name = "show" -> "Failed to fetch Show HN stories"
      [] name = "job" -> "Failed to fetch Job stories"
Categories == {"top", "job", "other"}

\* .context(msg)?: an Err gets the message in front of the error it had,
\* which stays as its cause (main prints both); a panic stays one
WithContext(result, context) ==
    IF result.ok \/ result.panic THEN result
    ELSE [ok |-> FALSE, err |-> context, panic |-> FALSE, cause |-> result.err]

\* stories.iter().find(|s| s.rank == rank)
FindRank(stories, rank) ==
    LET hits == {i \in 1..Len(stories) : stories[i].rank = rank}
    IN  IF hits = {} THEN None
        ELSE Some(stories[CHOOSE i \in hits : \A j \in hits : i <= j])

\* what details and open exit with when the rank led to no Story: the load
\* of the cache failed (got is its error), or no cached Story has the rank
LookupFailure(name, got) ==
    IF name = "details"
    THEN IF got.panic THEN got
         ELSE IF ~got.ok
         THEN Err("No cached stories. Please run a list command (top, new, etc.) first.")
         ELSE Err("Story with rank not found in cache. Run a list command first.")
    ELSE IF ~got.ok
         THEN WithContext(got,
                "Failed to load cached stories. Run a command first to populate cache.")
         ELSE Err("Story with rank not found in cache")


\* all_stories.into_iter().flatten().collect()
RECURSIVE Flatten(_)
Flatten(seqs) == IF seqs = <<>> THEN <<>> ELSE seqs[1] \o Flatten(Tail(seqs))

(* fetch_multiple_pages: one fetch_stories future per page, join_all, and   *)
(* the collect of the results into one Result.  A task is the future of one *)
(* page: "pending" (request not answered), "reading" (awaiting the body),   *)
(* "done" (with the response it got and its result).                        *)

Task(page, state, response, result) ==
    [page |-> page, state |-> state, response |-> response, result |-> result]
AllDone(ts) == \A i \in 1..Len(ts) : ts[i].state = "done"
\* the future of a page that got `response`: fetch_stories has returned
Completed(page, response, checks) ==
    Task(page, "done", Some(response), Some(fetch_stories(response, page, checks)))

\* join_all: the outputs in the order of the futures
JoinedByCompletion(ts, completed) ==
    [k \in 1..Len(ts) |-> ts[completed[k]].result.val]
Joined(ts, completed) == [i \in 1..Len(ts) |-> ts[i].result.val]

\* results.into_iter().collect::<Result<Vec<_>>>(): the first Err, or all values
CollectSkippingErrors(results) ==
    LET IsOkResult(r) == r.ok
        oks == SelectSeq(results, IsOkResult)
    IN  Ok([i \in 1..Len(oks) |-> oks[i].val])
Collect(results) ==
    LET bad == {i \in 1..Len(results) : ~results[i].ok}
    IN  IF bad = {} THEN Ok([i \in 1..Len(results) |-> results[i].val])
        ELSE results[CHOOSE i \in bad : \A j \in bad : i <= j]

\* the value of fetch_multiple_pages once every future is done
fetch_multiple_pages(ts, completed) == Collect(Joined(ts, completed))

(* The site: the listing document of a page (page 0 and page 1 have the     *)
(* same url), or a page without stories                                     *)

PageDocument(page) ==
    IF page <= 1
    THEN Document(<<Row(Some(<<"1", "1">>), None,
                        Some(TitleLink(<<"a", Delim>>, Some(<<"i", "t", "e", "m">>)))),
                    Row(Some(<<"1", "2">>), Some(<<"2", ".">>),
                        Some(TitleLink(<<"b">>, None)))>>,
                  <<StorySubtext>>)
    ELSE Document(<<Row(Some(to_string(page) \o <<"1">>), None,
                        Some(TitleLink(<<"c">>, None)))>>, <<>>)
SiteDocuments(page) == {PageDocument(page), Document(<<EmptyTitle>>, <<>>)}
\* what the request of a page can come to
PageResponses(page) == {SendFailed, ReadFailed} \cup SiteDocuments(page)
AllPageResponses == UNION {PageResponses(page) : page \in 0..(MaxNumPages + MaxPage)}
ClockPool == {1000, 1301}

-----------------------------------------------------------------------------
(* Specifications *)

CodecIdle ==
    /\ c_pc = "idle"
    /\ c_story = None
    /\ c_line = None
    /\ c_back = None

CacheIdle ==
    /\ cache = NoFile
    /\ now = 0
    /\ loaded = None

ExtractIdle ==
    /\ x_response = None
    /\ x_page = 1
    /\ x_result = None

WrapIdle ==
    /\ w_text = <<>>
    /\ w_width = 0
    /\ w_lines = None

ItemIdle ==
    /\ i_response = None
    /\ i_printed = <<>>
    /\ i_result = None

NoCommand == [name |-> "none"]
MainIdle ==
    /\ pc = "idle"
    /\ cmd = NoCommand
    /\ tasks = <<>>
    /\ order = <<>>
    /\ returned = None
    /\ displayed = <<>>
    /\ exit = None
    /\ cache_before = NoFile
    /\ snapshot = None

CodecInit ==
    /\ overflow_checks \in BOOLEAN
    /\ CacheIdle
    /\ ExtractIdle
    /\ WrapIdle
    /\ ItemIdle
    /\ MainIdle
    /\ c_pc = "input"
    /\ \E s \in StoryPool : c_story = Some(s)
    /\ c_line = None
    /\ c_back = None

\* line = story.to_cache_line()
Encode ==
    /\ c_pc = "input"
    /\ c_line' = Some(to_cache_line(c_story.val))
    /\ c_pc' = "encoded"
    /\ UNCHANGED <<c_story, c_back>>

\* back = Story::from_cache_line(&line)
Decode ==
    /\ c_pc = "encoded"
    /\ c_back' = from_cache_line(c_line.val)
    /\ c_pc' = "decoded"
    /\ UNCHANGED <<c_story, c_line>>


LoadInit ==
    /\ overflow_checks \in BOOLEAN
    /\ cache \in FilePool
    /\ now \in TimePoints
    /\ loaded = None
    /\ CodecIdle
    /\ ExtractIdle
    /\ WrapIdle
    /\ ItemIdle
    /\ MainIdle

\* one call of load_cached_stories()
Load ==
    /\ loaded = None
    /\ loaded' = Some(load_cached_stories(cache, now, overflow_checks))
    /\ UNCHANGED <<overflow_checks, cache, now, codecVars, extractVars, wrapVars,
                   itemVars, mainVars>>


ExtractInit ==
    /\ overflow_checks \in BOOLEAN
    /\ x_response \in {Some(r) : r \in ResponsePool}
    /\ x_page \in PagePool
    /\ x_result = None
    /\ CodecIdle
    /\ CacheIdle
    /\ WrapIdle
    /\ ItemIdle
    /\ MainIdle

\* one call of fetch_stories(endpoint, page)
Extract ==
    /\ x_result = None
    /\ x_result' = Some(fetch_stories(x_response.val, x_page, overflow_checks))
    /\ UNCHANGED <<overflow_checks, x_response, x_page, codecVars, cacheVars,
                   wrapVars, itemVars, mainVars>>


WrapInit ==
    /\ overflow_checks \in BOOLEAN
    /\ w_text \in TextPool
    /\ w_width \in WidthPool
    /\ w_lines = None
    /\ CodecIdle
    /\ CacheIdle
    /\ ExtractIdle
    /\ ItemIdle
    /\ MainIdle

\* one call of wrap_text(text, width)
Wrap ==
    /\ w_lines = None
    /\ w_lines' = Some(wrap_text(w_text, w_width))
    /\ UNCHANGED <<overflow_checks, w_text, w_width, codecVars, cacheVars,
                   extractVars, itemVars, mainVars>>


ItemInit ==
    /\ overflow_checks \in BOOLEAN
    /\ i_response \in {Some(r) : r \in ItemResponsePool}
    /\ i_printed = <<>>
    /\ i_result = None
    /\ CodecIdle
    /\ CacheIdle
    /\ ExtractIdle
    /\ WrapIdle
    /\ MainIdle

\* one call of fetch_item(id)
FetchItem ==
    /\ i_result = None
    /\ i_printed' = fetch_item(i_response.val, overflow_checks).printed
    /\ i_result' = Some(fetch_item(i_response.val, overflow_checks).result)
    /\ UNCHANGED <<overflow_checks, i_response, codecVars, cacheVars, extractVars,
                   wrapVars, mainVars>>


Init ==
    /\ overflow_checks \in BOOLEAN
    /\ cache = NoFile
    /\ now \in ClockPool
    /\ loaded = None
    /\ MainIdle
    /\ CodecIdle
    /\ ExtractIdle
    /\ WrapIdle
    /\ ItemIdle

otherVars == <<overflow_checks, codecVars, extractVars, wrapVars, itemVars>>

\* the system clock is set, forwards or backwards, between two commands
Tick ==
    /\ pc = "idle"
    /\ \E t \in ClockPool \ {now} : now' = t
    /\ UNCHANGED <<cache, loaded, mainVars, otherVars>>

\* the end of a listing command whose fetch returned `fetched` (for multi, the
\* pages flattened): save_stories(&stories)?; display_stories(&stories); or
\* the exit with the error, nothing saved and nothing displayed
Finish(fetched, context) ==
    /\ pc' = "exited"
    /\ exit' = Some(WithContext(IF fetched.ok THEN Ok(<<>>) ELSE fetched, context))
    /\ IF fetched.ok
       THEN /\ cache' = save_stories(cache, fetched.val, now)
            /\ displayed' = fetched.val
            /\ snapshot' = Some([stories |-> fetched.val, ts |-> now])
       ELSE /\ cache' = cache
            /\ displayed' = <<>>
            /\ snapshot' = snapshot

\* hn top | new | best | ask | show | job --page N
List ==
    /\ pc = "idle"
    /\ \E name \in ListingCommands, page \in PagePool :
         \E response \in PageResponses(page) :
            /\ cmd' = [name |-> name, endpoint |-> Endpoint(name), page |-> page]
            /\ returned' = Some(fetch_stories(response, page, overflow_checks))
            /\ Finish(fetch_stories(response, page, overflow_checks),
                      FetchContext(name))
    /\ cache_before' = cache
    /\ UNCHANGED <<tasks, order, now, loaded, otherVars>>

\* hn multi --category C --num-pages N, from the command line to the exit:
\* every page 1..=N gets its response, fetch_multiple_pages returns, and the
\* pages are flattened, saved and displayed, or the command fails
Multi ==
    /\ pc = "idle"
    /\ \E category \in Categories, num_pages \in 0..MaxNumPages :
         \E responses \in [1..num_pages -> AllPageResponses] :
            /\ \A i \in 1..num_pages : responses[i] \in PageResponses(i)
            /\ LET ts == [i \in 1..num_pages |->
                             Completed(i, responses[i], overflow_checks)]
                   result == fetch_multiple_pages(ts, [i \in 1..num_pages |-> i])
               IN  /\ cmd' = [name |-> "multi", endpoint |-> Endpoint(category),
                              num_pages |-> num_pages]
                   /\ returned' = Some(result)
                   /\ Finish(IF result.ok THEN Ok(Flatten(result.val)) ELSE result,
                             "Failed to fetch multiple pages")
    /\ cache_before' = cache
    /\ UNCHANGED <<tasks, order, now, loaded, otherVars>>

\* the process ends: what it held in memory is gone
Exit ==
    /\ pc = "exited"
    /\ pc' = "idle"
    /\ cmd' = NoCommand
    /\ returned' = None
    /\ displayed' = <<>>
    /\ exit' = None
    /\ cache_before' = NoFile
    /\ loaded' = None
    /\ UNCHANGED <<tasks, order, snapshot, cache, now, otherVars>>

\* hn details <id_or_rank>: a number is a rank looked up in the cache, whose
\* load failure is answered with one message; anything else is an item id
Details ==
    /\ pc = "idle"
    /\ \E id_or_rank \in {<<"1">>, <<"7">>, <<"3", "1">>, <<"i", "d">>},
          response \in {SendFailed, ItemDocument(None, None, <<>>),
                        ItemDocument(None, None, <<PlainComment(1)>>)} :
         LET rank == ParseUnsigned(id_or_rank)
             got == load_cached_stories(cache, now, overflow_checks)
             found == IF IsSome(rank) /\ got.ok
                      THEN FindRank(got.val, rank.val) ELSE None
             fetches == ~IsSome(rank) \/ IsSome(found)
             item == fetch_item(response, overflow_checks)
         IN  /\ cmd' = [name |-> "details", arg |-> id_or_rank]
             /\ loaded' = IF IsSome(rank) THEN Some(got) ELSE None
             /\ returned' = IF fetches THEN Some(item.result) ELSE None
             /\ displayed' = IF fetches THEN item.printed ELSE <<>>
             /\ exit' = Some(
                   IF fetches
                   THEN WithContext(item.result, "Failed to fetch item details")
                   ELSE LookupFailure("details", got))
    /\ pc' = "exited"
    /\ cache_before' = cache
    /\ UNCHANGED <<tasks, order, snapshot, cache, now, otherVars>>

\* hn open <index>: the rank is looked up in the cache and the url of the
\* Story, or its discussion, is handed to the browser, which may fail
Open ==
    /\ pc = "idle"
    /\ \E index \in {1, 7, 31}, opened \in {Ok(<<>>), Err("open::that")} :
         LET got == load_cached_stories(cache, now, overflow_checks)
             found == IF got.ok THEN FindRank(got.val, index) ELSE None
         IN  /\ cmd' = [name |-> "open", arg |-> index]
             /\ loaded' = Some(got)
             /\ returned' =
                   IF ~IsSome(found) THEN None
                   ELSE IF IsSome(found.val.url) THEN Some(Ok(found.val.url.val))
                   ELSE Some(Ok(BASE_URL \o <<"/", "i", "t", "e", "m", "?", "i", "d", "=">>
                                         \o found.val.id))
             /\ exit' = Some(
                   IF ~IsSome(found) THEN LookupFailure("open", got)
                   ELSE IF IsSome(found.val.url)
                   THEN WithContext(opened, "Failed to open URL in browser")
                   ELSE WithContext(opened, "Failed to open HN URL in browser"))
    /\ pc' = "exited"
    /\ displayed' = <<>>
    /\ cache_before' = cache
    /\ UNCHANGED <<tasks, order, snapshot, cache, now, otherVars>>

Next ==
    Tick \/ List \/ Multi \/ Details \/ Open \/ Exit

Spec == Init /\ [][Next]_vars

(* One hn multi command, future by future: the cache file it starts over is *)
(* absent or holds the snapshot of an earlier command                       *)

EarlierSnapshots ==
    {[stories |-> fetch_stories(PageDocument(2), 2, TRUE).val, ts |-> t] : t \in ClockPool}

MultiInit ==
    /\ overflow_checks \in BOOLEAN
    /\ now \in ClockPool
    /\ \/ snapshot = None /\ cache = NoFile
       \/ \E snap \in EarlierSnapshots :
             /\ snapshot = Some(snap)
             /\ cache = save_stories(NoFile, snap.stories, snap.ts)
    /\ loaded = None
    /\ pc = "idle"
    /\ cmd = NoCommand
    /\ tasks = <<>>
    /\ order = <<>>
    /\ returned = None
    /\ displayed = <<>>
    /\ exit = None
    /\ cache_before = NoFile
    /\ CodecIdle
    /\ ExtractIdle
    /\ WrapIdle
    /\ ItemIdle

\* the futures of pages 1..=N are made
MultiStart ==
    /\ pc = "idle"
    /\ \E category \in Categories, num_pages \in 0..MaxNumPages :
         /\ cmd' = [name |-> "multi", endpoint |-> Endpoint(category),
                    num_pages |-> num_pages]
         /\ tasks' = [i \in 1..num_pages |-> Task(i, "pending", None, None)]
    /\ pc' = "multi"
    /\ cache_before' = cache
    /\ UNCHANGED <<order, returned, displayed, exit, snapshot, cache, now, loaded,
                   otherVars>>

\* client.get(&url).send().await of one page: it fails, or the headers arrive
TaskSend ==
    /\ pc = "multi"
    /\ \E i \in 1..Len(tasks) :
         /\ tasks[i].state = "pending"
         /\ \/ /\ tasks' = [tasks EXCEPT ![i].state = "reading"]
               /\ order' = order
            \/ /\ tasks' = [tasks EXCEPT ![i] =
                                Completed(tasks[i].page, SendFailed, overflow_checks)]
               /\ order' = Append(order, i)
    /\ UNCHANGED <<pc, cmd, returned, displayed, exit, cache_before, snapshot,
                   cache, now, loaded, otherVars>>

\* .text().await of one page and the extraction that follows it
TaskRead ==
    /\ pc = "multi"
    /\ \E i \in 1..Len(tasks) :
         /\ tasks[i].state = "reading"
         /\ \E response \in PageResponses(tasks[i].page) \ {SendFailed} :
               tasks' = [tasks EXCEPT ![i] =
                            Completed(tasks[i].page, response, overflow_checks)]
         /\ order' = Append(order, i)
    /\ UNCHANGED <<pc, cmd, returned, displayed, exit, cache_before, snapshot,
                   cache, now, loaded, otherVars>>

\* join_all is ready: collect, then flatten, save and display
MultiFinish ==
    /\ pc = "multi"
    /\ AllDone(tasks)
    /\ LET result == fetch_multiple_pages(tasks, order)
       IN  /\ returned' = Some(result)
           /\ Finish(IF result.ok THEN Ok(Flatten(result.val)) ELSE result,
                     "Failed to fetch multiple pages")
    /\ UNCHANGED <<cmd, tasks, order, cache_before, now, loaded, otherVars>>

SpecMulti ==
    MultiInit /\ [][MultiStart \/ TaskSend \/ TaskRead \/ MultiFinish]_vars

SpecLoad == LoadInit /\ [][Load]_vars

SpecExtract == ExtractInit /\ [][Extract]_vars

SpecWrap == WrapInit /\ [][Wrap]_vars

SpecItem == ItemInit /\ [][FetchItem]_vars

SpecCodec ==
    CodecInit /\ [][(Encode \/ Decode)
                      /\ UNCHANGED <<overflow_checks, cacheVars, extractVars,
                                     wrapVars, itemVars, mainVars>>]_vars

-----------------------------------------------------------------------------
(* Claims *)

\* C2: encoding a Story and decoding the line gives back a Story equal to it
\* in rank, id, title, url, points, author and comments.
SamePersisted(a, b) ==
    /\ a.rank = b.rank /\ a.id = b.id /\ a.title = b.title /\ a.url = b.url
    /\ a.points = b.points /\ a.author = b.author /\ a.comments = b.comments
C2_RoundTrip ==
    c_pc = "decoded" => IsSome(c_back) /\ SamePersisted(c_back.val, c_story.val)

\* the timestamp of the cache file, when its first line parses as one
HasTimestamp(file) ==
    /\ file.exists
    /\ Lines(file.content) # <<>>
    /\ IsSome(ParseUnsigned(Lines(file.content)[1]))
TimestampOf(file) == ParseUnsigned(Lines(file.content)[1]).val
LoadedExpired == loaded # None /\ ~loaded.val.ok /\ loaded.val.err = "Cache expired"
LoadedEmpty ==
    loaded # None /\ ~loaded.val.ok /\ loaded.val.err = "No stories in cache"
LoadedOk == loaded # None /\ loaded.val.ok

\* C1: a load of a cache stamped t at time now fails with "Cache expired"
\* exactly when now - t > 300.
C1_ExpiredExactlyPastTTL ==
    (loaded # None /\ HasTimestamp(cache)) =>
        (LoadedExpired <=> now - TimestampOf(cache) > CACHE_TTL_SECONDS)

\* the lines after the first one, and their fields
StoryLines(file) ==
    IF Lines(file.content) = <<>> THEN <<>> ELSE Tail(Lines(file.content))
HasSevenFields(l) == Len(Split(l, Delim)) = 7
RankParses(l) == IsSome(ParseUnsigned(Split(l, Delim)[1]))
LoadedStories == IF LoadedOk THEN loaded.val.val ELSE <<>>
Ids(stories) == [i \in 1..Len(stories) |-> stories[i].id]
IdFields(ls) == [i \in 1..Len(ls) |-> Split(ls[i], Delim)[2]]

\* C9 as stated: when the load gets to decoding, the stories it returns are
\* the lines of exactly 7 fields, in file order, and it fails with "No stories
\* in cache" only when there is no such line.
C9_SevenFieldsSoleCheck ==
    (LoadedOk \/ LoadedEmpty) =>
        /\ Ids(LoadedStories) = IdFields(SelectSeq(StoryLines(cache), HasSevenFields))
        /\ LoadedEmpty <=> SelectSeq(StoryLines(cache), HasSevenFields) = <<>>

\* C9 amended: a line yields a Story exactly when it has exactly 7 fields and
\* its first field parses as an unsigned integer; other lines are dropped,
\* file order is kept, and the load fails with "No stories in cache" exactly
\* when no line decodes.
Decodable(l) == HasSevenFields(l) /\ RankParses(l)
C9_SevenFieldsAndRank ==
    (LoadedOk \/ LoadedEmpty) =>
        /\ Ids(LoadedStories) = IdFields(SelectSeq(StoryLines(cache), Decodable))
        /\ LoadedEmpty <=> SelectSeq(StoryLines(cache), Decodable) = <<>>
\* a load that drops a line of 7 fields whose rank is no number and keeps the
\* line after it
C9_Witness ==
    /\ LoadedOk
    /\ Len(LoadedStories) = 1
    /\ Len(StoryLines(cache)) = 2
    /\ HasSevenFields(StoryLines(cache)[1])
    /\ ~Decodable(StoryLines(cache)[1])
    /\ Decodable(StoryLines(cache)[2])

\* the rows fetch_stories keeps, by 1-based position among the story rows
Retained(doc) == {i \in 1..Len(doc.rows) : ~TitleIsEmpty(RowTitle(doc.rows[i]))}
NthRetained(doc, k) ==
    CHOOSE i \in Retained(doc) : Cardinality({j \in Retained(doc) : j <= i}) = k
HasParseableLabel(row) == IsSome(row.rank) /\ IsSome(LabelRank(row.rank.val))
Extracted == x_result # None /\ x_result.val.ok
ExtractedStories == x_result.val.val
IsDocument(r) == r.kind = "document"

C10_NonEmptyTitles ==
    (x_result # None /\ IsDocument(x_response.val)) =>
        /\ Extracted =>
              /\ ExtractedStories # <<>>
              /\ \A k \in 1..Len(ExtractedStories) : ExtractedStories[k].title # <<>>
        /\ Retained(x_response.val) = {} => x_result.val = Err(NoStoriesFound)

\* the words of the lines, in order
RECURSIVE WordsOfLines(_)
WordsOfLines(ls) ==
    IF ls = <<>> THEN <<>> ELSE SplitWhitespace(ls[1]) \o WordsOfLines(Tail(ls))
IsOneWord(l) == SplitWhitespace(l) = <<l>>
WrappedWholeWords ==
    /\ WordsOfLines(w_lines.val) = SplitWhitespace(w_text)
    /\ \A i \in 1..Len(w_lines.val) :
          \/ Len(w_lines.val[i]) <= w_width
          \/ IsOneWord(w_lines.val[i])
ExampleText == Aaaa \o <<" ">> \o Bbbb \o <<" ">> \o Cccc
IsExample == w_text = ExampleText /\ w_width = 9

\* C7 as stated: wrap_text returns the words in order, never splits a word,
\* keeps every line within width unless it is a single longer word, and wraps
\* "aaaa bbbb cccc" at width 9 into the three lines aaaa, bbbb, cccc.
C7_WrapThreeLines ==
    w_lines # None =>
        /\ WrappedWholeWords
        /\ IsExample => w_lines.val = <<Aaaa, Bbbb, Cccc>>

\* C7 amended: as stated, but "aaaa bbbb cccc" at width 9 gives the two lines
\* "aaaa bbbb" (9 characters, which fit) and "cccc".
C7_WrapGreedy ==
    w_lines # None =>
        /\ WrappedWholeWords
        /\ IsExample => w_lines.val = <<Aaaa \o <<" ">> \o Bbbb, Cccc>>
C7_Witness == IsExample /\ w_lines # None /\ Len(w_lines.val) = 2
\* a word longer than the width, alone on its line between two others
C7_WitnessLongWord ==
    /\ w_lines # None /\ Len(w_lines.val) = 3
    /\ Len(w_lines.val[2]) > w_width
    /\ Len(w_lines.val[1]) = w_width

\* what fetch_item printed
CountKind(printed, kind) == Cardinality({i \in 1..Len(printed) : printed[i].kind = kind})
IsTagged(p) == p.kind = "line" /\ p.text[1] = "c"
Tags(printed) ==
    LET tagged == SelectSeq(printed, IsTagged)
    IN  [i \in 1..Len(tagged) |-> SplitWhitespace(tagged[i].text)[1]]
HasText(row) == IsSome(row.text)
RowTags(rows) ==
    LET with == SelectSeq(rows, HasText)
    IN  [i \in 1..Len(with) |-> SplitWhitespace(with[i].text.val)[1]]
Min(a, b) == IF a < b THEN a ELSE b
ItemDone == i_result # None /\ IsDocument(i_response.val)
NumComments == Len(i_response.val.comments)

\* C6: a detail page with n comment rows shows the first min(n, 10) of them
\* in document order; for n > 10 one remainder n - 10 is reported, for
\* 1 <= n <= 10 none, and for n = 0 "no comments" is shown without error.
C6_CommentCap ==
    ItemDone =>
        /\ CountKind(i_printed, "end") = Min(NumComments, 10)
        /\ Tags(i_printed) =
              RowTags(SubSeq(i_response.val.comments, 1, Min(NumComments, 10)))
        /\ NumComments > 10 =>
              /\ CountKind(i_printed, "more") = 1
              /\ i_printed[Len(i_printed)] = [kind |-> "more", count |-> NumComments - 10]
        /\ NumComments <= 10 => CountKind(i_printed, "more") = 0
        /\ NumComments = 0 <=> CountKind(i_printed, "no comments") = 1
        /\ NumComments = 0 => i_result.val = Ok(<<>>)

\* a multi command that has ended, and the outcome of each of its pages
MultiEnded == pc = "exited" /\ cmd.name = "multi"
PageResult(i) == tasks[i].result.val
PageFailed(i) == ~PageResult(i).ok
SomePageFailed == \E i \in 1..Len(tasks) : PageFailed(i)

\* C3: when the fetch or the extraction of at least one page fails,
\* fetch_multiple_pages returns failure, whatever the other pages gave and
\* whenever they completed, and the command displays no Story, leaves the
\* cache file as it was and exits with the error.
C3_FailFast ==
    (MultiEnded /\ SomePageFailed) =>
        /\ ~returned.val.ok
        /\ returned.val \in {PageResult(i) : i \in 1..Len(tasks)}
        /\ displayed = <<>>
        /\ cache = cache_before
        /\ ~exit.val.ok /\ exit.val.err = "Failed to fetch multiple pages"
\* three pages over a cache file that exists: page 1 completes with stories,
\* then page 2 fails, then page 3 completes with stories
C3_Witness ==
    /\ MultiEnded
    /\ Len(tasks) = 3
    /\ order = <<1, 2, 3>>
    /\ PageResult(1).ok /\ PageResult(1).val # <<>>
    /\ PageFailed(2)
    /\ PageResult(3).ok /\ PageResult(3).val # <<>>
    /\ cache_before # NoFile

\* C4: when every page succeeds, fetch_multiple_pages returns one Story
\* sequence per requested page, element i being the extraction of the i-th
\* requested page (page i), in whatever order the fetches completed.
C4_RequestOrder ==
    (MultiEnded /\ ~SomePageFailed) =>
        /\ returned.val.ok
        /\ Len(returned.val.val) = cmd.num_pages
        /\ \A i \in 1..cmd.num_pages :
              /\ tasks[i].page = i
              /\ returned.val.val[i] =
                    fetch_stories(tasks[i].response.val, i, overflow_checks).val
\* three pages that all succeed, the last requested completing first
C4_Witness ==
    /\ MultiEnded
    /\ ~SomePageFailed
    /\ order = <<3, 1, 2>>
    /\ returned.val.val[1] # returned.val.val[3]

\* the file a snapshot is stored as: the time, then one line per Story
SnapshotFile(snap) ==
    File(to_string(snap.ts) \o <<NewLine>>
         \o Join([i \in 1..Len(snap.stories) |-> to_cache_line(snap.stories[i])],
                 NewLine))

\* C5: after any sequence of listing commands the cache file holds exactly
\* the snapshot of the most recent command whose fetch and extraction
\* succeeded: there is no file before the first one, a successful command
\* replaces the whole content, and a failed one leaves the file unchanged.
C5_CacheIsLatestSnapshot ==
    /\ cache = IF snapshot = None THEN NoFile ELSE SnapshotFile(snapshot.val)
    /\ pc = "exited" =>
          IF exit.val.ok /\ cmd.name \in ListingCommands \cup {"multi"}
          THEN snapshot = Some([stories |-> displayed, ts |-> now])
          ELSE cache = cache_before
\* a command that succeeds over the longer file of an earlier command
C5_Witness ==
    /\ pc = "exited"
    /\ exit.val.ok
    /\ cache_before # NoFile
    /\ Len(cache.content) < Len(cache_before.content)
\* a command that fails after an earlier one succeeded
C5_WitnessFailed ==
    /\ pc = "exited"
    /\ ~exit.val.ok
    /\ cache # NoFile

\* C13: for every cache file whose first line is a timestamp t and every
\* current time now, t > now included, the load computes now - t without
\* underflow (it does not panic) and a cache from the future is not expired.
C13_NoUnderflowInTTL ==
    (loaded # None /\ HasTimestamp(cache)) =>
        /\ ~SubOverflows(now, TimestampOf(cache))
        /\ ~loaded.val.panic
        /\ TimestampOf(cache) > now => ~LoadedExpired

\* C14: for every page number, 0 included, fetch_stories evaluates the
\* fallback rank (page - 1) * 30 + idx + 1 of every story row, labelled or
\* not, without underflow or overflow (it does not panic, and the rank of a
\* Story is never a wrapped value).
C14_NoUnderflowInRank ==
    (x_result # None /\ IsDocument(x_response.val)) =>
        /\ \A idx \in 0..(Len(x_response.val.rows) - 1) :
              ~FallbackOverflows(x_page, idx)
        /\ ~x_result.val.panic
        /\ Extracted =>
              \A k \in 1..Len(ExtractedStories) : ExtractedStories[k].rank >= 0

\* a details <rank> or open <rank> that has ended after its load of the cache
LookupEnded == pc = "exited" /\ cmd.name \in {"details", "open"} /\ loaded # None
\* the ways a lookup finds no Story: the three failures of the load, and a
\* load that succeeds with no Story of the rank
LookupConditions ==
    {Err("Failed to read cache file"), Err("Cache expired"),
     Err("No stories in cache"), Ok(<<>>)}
SameCondition(a, b) == IF a.ok \/ b.ok THEN a.ok = b.ok ELSE a.err = b.err

\* C11: what details <rank> and open <rank> exit with tells the cache file
\* missing, the cache expired and the cache without stories from each other,
\* and each of them from a rank that is not in the snapshot: no other
\* condition makes the command exit as it did.
C11_DistinctCacheFailures ==
    (LookupEnded /\ returned = None /\ ~loaded.val.panic) =>
        /\ exit.val = LookupFailure(cmd.name, loaded.val)
        /\ \A other \in LookupConditions :
              ~SameCondition(other, loaded.val) =>
                  LookupFailure(cmd.name, other) # exit.val
\* the same for open alone
C11_OpenOnly == cmd.name = "open" => C11_DistinctCacheFailures

\* C12: once a listing command has succeeded, a load of the cache within
\* 300 seconds of its save succeeds with at least one Story.
C12_LoadAfterListing ==
    (loaded # None /\ snapshot # None
        /\ now - snapshot.val.ts >= 0
        /\ now - snapshot.val.ts <= CACHE_TTL_SECONDS) =>
        /\ loaded.val.ok
        /\ loaded.val.val # <<>>

=============================================================================
